---- MODULE Spec2Model ----
(***************************************************************************)
(* Warmy: analysis of one git commit.  The model follows main (main.go),   *)
(* GetCommit (internal/git/git.go), getCommitChanges, parseDiffContent,    *)
(* the focus classifier (internal/focus) and the helpers of                *)
(* internal/types.                                                         *)
(*                                                                         *)
(* Go strings are TLA+ strings: len is Len, s[i:j] is SubSeq, + is \o and  *)
(* fmt's %d is ToString.  One run of GetCommit is one behaviour: the file  *)
(* patches (or, at a root commit, the tracked files) the repository yields *)
(* are drawn one per step and recorded in `source`.                        *)
(***************************************************************************)
EXTENDS Integers, Sequences, FiniteSets, TLC

VARIABLES
    cfg,              \* config.globalConfig, read through config.GetConfig()
    isRoot,           \* commit.NumParents() == 0
    source,           \* the file patches / tracked files yielded so far
    pc,               \* position inside GetCommit
    changes,          \* []types.ChangeInfo
    stats,            \* types.StatsInfo
    diffSummary,      \* types.DiffSummary
    fullDiff,         \* getCommitChanges: fullDiff
    totalDiffSize,    \* getCommitChanges: totalDiffSize
    compiledPatterns, \* focus.compiledPatterns
    i,                \* GetCommit: index of the focus loop
    filesChanged,     \* GetCommit: filesChanged
    focusFiles,       \* GetCommit: focusFiles
    focusStats,       \* GetCommit: focusStats
    commitInfo,       \* the report GetCommit returns
    repo,             \* the repository at cfg.RepoPath
    commit,           \* GetCommit: commit
    err,              \* the error GetCommit returns ("" is nil)
    changesErr,       \* the error getCommitChanges returned ("" is nil)
    focusErr,         \* the error focus.Init returned ("" is nil)
    output            \* what main printed to the console and saved to files

vars == <<cfg, isRoot, source, pc, changes, stats, diffSummary, fullDiff,
          totalDiffSize, compiledPatterns, i, filesChanged, focusFiles,
          focusStats, commitInfo, repo, commit, err, changesErr, focusErr,
          output>>

\* what the steps of getCommitChanges and of the focus loop leave alone
runVars == <<repo, commit, err, changesErr, focusErr, output>>

----------------------------------------------------------------------------
(* Bounds of the model *)

\* files a commit touches (file patches, or tracked files of a root commit)
MaxFiles == 2

\* records in one line list of a change handed directly to the classifier
MaxLines == 1

----------------------------------------------------------------------------
(* strings *)

NL == "\n"

\* strings.HasPrefix
HasPrefix(s, prefix) ==
    Len(s) >= Len(prefix) /\ SubSeq(s, 1, Len(prefix)) = prefix

\* strings.HasSuffix
HasSuffix(s, suffix) ==
    Len(s) >= Len(suffix) /\ SubSeq(s, Len(s) - Len(suffix) + 1, Len(s)) = suffix

\* strings.Contains
HasSubstr(s, sub) ==
    \E k \in 0..(Len(s) - Len(sub)) : SubSeq(s, k + 1, k + Len(sub)) = sub

\* strings.Index(s, sep) for a one-byte sep, 1-based; 0 when absent
IndexByte(s, sep) ==
    IF \E k \in 1..Len(s) : SubSeq(s, k, k) = sep
    THEN CHOOSE k \in 1..Len(s) :
            /\ SubSeq(s, k, k) = sep
            /\ \A j \in 1..(k - 1) : SubSeq(s, j, j) # sep
    ELSE 0

\* strings.Split(s, sep) for a one-byte sep: never empty, [""] for ""
RECURSIVE Split(_, _)
Split(s, sep) ==
    LET k == IndexByte(s, sep)
    IN  IF k = 0 THEN <<s>>
        ELSE <<SubSeq(s, 1, k - 1)>> \o Split(SubSeq(s, k + 1, Len(s)), sep)

UpperLetters == "ABCDEFGHIJKLMNOPQRSTUVWXYZ"
LowerLetters == "abcdefghijklmnopqrstuvwxyz"

\* strings.ToLower on ASCII
RECURSIVE ToLower(_)
ToLower(s) ==
    IF s = "" THEN ""
    ELSE LET c == SubSeq(s, 1, 1)
             k == IndexByte(UpperLetters, c)
         IN  (IF k = 0 THEN c ELSE SubSeq(LowerLetters, k, k))
                \o ToLower(SubSeq(s, 2, Len(s)))

----------------------------------------------------------------------------
(* internal/types *)

\* types.GetFileExtension
GetFileExtension(filename) ==
    LET parts == Split(filename, ".")
    IN  IF Len(parts) > 1 THEN parts[Len(parts)] ELSE ""

binaryExtensions ==
    { "exe", "dll", "so", "dylib", "bin", "class", "jar", "war",
      "png", "jpg", "jpeg", "gif", "bmp", "ico", "pdf", "doc",
      "docx", "xls", "xlsx", "ppt", "pptx", "zip", "tar", "gz",
      "7z", "rar", "mp3", "mp4", "avi", "mkv", "mov", "wav",
      "iso", "img", "dmg", "pkg", "o", "obj", "lib", "a" }

\* types.IsLikelyBinaryFile
IsLikelyBinaryFile(filename) ==
    ToLower(GetFileExtension(filename)) \in binaryExtensions

\* types.TruncateString
TruncateString(s, maxLen) ==
    IF Len(s) <= maxLen THEN s
    ELSE SubSeq(s, 1, maxLen) \o "\n... [content truncated]"

\* types.Contains
Contains(slice, item) == \E k \in 1..Len(slice) : slice[k] = item

\* types.LineChange
LineChange(type, content) == [Type |-> type, Content |-> content]

\* the zero value of types.ChangeInfo (FileSize is not modelled)
ZeroChangeInfo ==
    [ Action |-> "", Filepath |-> "", OldPath |-> "", NewPath |-> "",
      Additions |-> 0, Deletions |-> 0, DiffContent |-> "", Extension |-> "",
      IsBinary |-> FALSE, AdditionsList |-> <<>>, DeletionsList |-> <<>>,
      IsFocus |-> FALSE, FocusReason |-> "" ]

\* the zero value of types.StatsInfo
ZeroStatsInfo ==
    [ TotalAdditions |-> 0, TotalDeletions |-> 0, TotalFiles |-> 0,
      AddFiles |-> 0, DeleteFiles |-> 0, ModifyFiles |-> 0, RenameFiles |-> 0,
      CopyFiles |-> 0, BinaryFiles |-> 0 ]

\* the zero value of types.FocusStats
ZeroFocusStats ==
    [ TotalFocusFiles |-> 0, AddFocusFiles |-> 0, ModifyFocusFiles |-> 0,
      DeleteFocusFiles |-> 0, MatchPatternFiles |-> 0, MatchContentFiles |-> 0 ]

\* the zero value of types.DiffSummary
ZeroDiffSummary ==
    [ TotalDiffSize |-> 0, DiffTooLarge |-> FALSE, MaxDiffSize |-> 0,
      FullDiff |-> "" ]

----------------------------------------------------------------------------
(* parseDiffContent *)

\* the file-header lines both parsing modes skip
isDiffHeaderLine(line) ==
    \/ HasPrefix(line, "diff --git")
    \/ HasPrefix(line, "index ")
    \/ HasPrefix(line, "--- ")
    \/ HasPrefix(line, "+++ ")
    \/ HasPrefix(line, "new file mode")
    \/ HasPrefix(line, "deleted file mode")
    \/ HasPrefix(line, "rename from")
    \/ HasPrefix(line, "rename to")

\* the switch on a line's first byte, appending to the two lists
classifyLine(line, acc) ==
    LET prefix  == SubSeq(line, 1, 1)
        content == SubSeq(line, 2, Len(line))
    IN  IF prefix = "+" /\ ~HasPrefix(content, "++ b/")
        THEN [acc EXCEPT !.additions = Append(@, LineChange("add", content))]
        ELSE IF prefix = "-" /\ ~HasPrefix(content, "-- a/")
        THEN [acc EXCEPT !.deletions = Append(@, LineChange("delete", content))]
        ELSE acc

\* the loop of the branch taken when a line starts with "@@"
RECURSIVE parseWithHunks(_, _, _, _)
parseWithHunks(lines, k, inHunk, acc) ==
    IF k > Len(lines) THEN acc
    ELSE LET line == lines[k]
         IN  IF isDiffHeaderLine(line)
             THEN parseWithHunks(lines, k + 1, inHunk, acc)
             ELSE IF HasPrefix(line, "@@")
             THEN parseWithHunks(lines, k + 1, TRUE, acc)
             ELSE IF inHunk /\ Len(line) > 0
             THEN parseWithHunks(lines, k + 1, inHunk, classifyLine(line, acc))
             ELSE parseWithHunks(lines, k + 1, inHunk, acc)

\* the loop of the branch taken when no line starts with "@@"
RECURSIVE parseSimple(_, _, _, _)
parseSimple(lines, k, skipHeader, acc) ==
    IF k > Len(lines) THEN acc
    ELSE LET line == lines[k]
         IN  IF Len(line) = 0
             THEN parseSimple(lines, k + 1, skipHeader, acc)
             ELSE IF isDiffHeaderLine(line)
             THEN parseSimple(lines, k + 1, TRUE, acc)
             ELSE IF skipHeader
             THEN parseSimple(lines, k + 1, skipHeader, classifyLine(line, acc))
             ELSE parseSimple(lines, k + 1, skipHeader, acc)

NoLines == [additions |-> <<>>, deletions |-> <<>>]

parseDiffContent(diffContent) ==
    IF diffContent = "" THEN NoLines
    ELSE LET lines == Split(diffContent, NL)
         IN  IF Len(lines) < 3 THEN NoLines
             ELSE IF \E k \in 1..Len(lines) : HasPrefix(lines[k], "@@")
             THEN parseWithHunks(lines, 1, FALSE, NoLines)
             ELSE parseSimple(lines, 1, FALSE, NoLines)

----------------------------------------------------------------------------
(* what the repository yields (go-git): file patches and tracked files *)

NilFile == [nil |-> TRUE, path |-> ""]
File(path) == [nil |-> FALSE, path |-> path]
Chunk(type, content) == [Type |-> type, Content |-> content]
FilePatch(from, to, chunks) == [from |-> from, to |-> to, chunks |-> chunks]
TreeFile(name, content, readable) ==
    [Name |-> name, Content |-> content, Readable |-> readable]

\* patch.FilePatches() of a non-root commit draws from these; the .obj files
\* are text (chunks with lines) under an extension of the binary list
FilePatches ==
    { FilePatch(NilFile, File("new.yaml"), <<Chunk("Add", "a\nb\n")>>),
      FilePatch(NilFile, File("logo.png"), <<>>),
      FilePatch(File("old.yaml"), NilFile,
                <<Chunk("Delete", "severity: critical\nid: 1\n")>>),
      FilePatch(File("config.yaml"), File("config.yaml"),
                <<Chunk("Equal", "id: 1\n"),
                  Chunk("Delete", "severity: critical\n"),
                  Chunk("Add", "severity: high\n")>>),
      FilePatch(File("rules.yaml"), File("rules.yaml"),
                <<Chunk("Delete", "digest: 1\n"), Chunk("Add", "digest: 2\n")>>),
      FilePatch(File("app.yaml"), File("app.yaml"),
                <<Chunk("Add", "a\n\n++ b")>>),
      FilePatch(File("digest.yaml"), File("digest.yaml"),
                <<Chunk("Add", "a\n")>>),
      FilePatch(File("a.yaml"), File("b.yaml"), <<>>),
      FilePatch(File("mesh.obj"), File("mesh.obj"),
                <<Chunk("Delete", "v 0 0 0\n"), Chunk("Add", "v 0 0 1\n")>>),
      FilePatch(File("old.obj"), NilFile, <<Chunk("Delete", "v 1 1 1\n")>>) }

\* tree.Files() of a root commit draws from these
TreeFiles ==
    { TreeFile("a.txt", "x\ny\nz\n", TRUE),
      TreeFile("b.txt", "x\ny\nz", TRUE),
      TreeFile("config.yaml", "severity: critical\n", TRUE),
      TreeFile("notes.txt",
               "the first line of the notes\nthe second line of the notes\n"
                   \o "the third line of the notes\n-x\n y\n",
               TRUE),
      TreeFile("empty.txt", "", TRUE),
      TreeFile("old.bin", "", FALSE) }

\* the paths a file patch names
pathsOf(fp) == {fp.from.path, fp.to.path} \ {""}

\* a tree comparison names every path once: the patch shares no path with
\* the patches before it
freshPatch(fp) ==
    \A k \in 1..Len(source) : pathsOf(fp) \cap pathsOf(source[k]) = {}

\* a tree holds every path once
freshFile(f) == \A k \in 1..Len(source) : source[k].Name # f.Name

\* the text of the error f.Contents() returns
ReadErrorText == "object not found"

----------------------------------------------------------------------------
(* the repository (go-git): whether it opens, HEAD, the commit objects *)

\* an object.Commit: its hash, commit.NumParents(), whether commit.Tree()
\* succeeds
Commit(hash, numParents, treeOK) ==
    [nil |-> FALSE, Hash |-> hash, NumParents |-> numParents, TreeOK |-> treeOK]

NilCommit == [nil |-> TRUE, Hash |-> "", NumParents |-> 0, TreeOK |-> FALSE]

RootHash  == "1f3a9c0e5b7d2a4f6e8c0b1d3f5a7c9e1b3d5f70"
ChildHash == "1fb28d4e6a0c2e4f6a8b0c1d2e3f4a5b6c7d8e9f"

\* a git.Repository: Head is the hash HEAD names ("" when repo.Head() fails),
\* Commits the commit objects in the order repo.CommitObjects() yields them
Repository(opens, head, commits) ==
    [Opens |-> opens, Head |-> head, Commits |-> commits]

\* a repository of a root commit and its child, HEAD at the child
TwoCommitRepo ==
    Repository(TRUE, ChildHash,
               <<Commit(RootHash, 0, TRUE), Commit(ChildHash, 1, TRUE)>>)

\* what git.PlainOpen(repoPath) may find: no repository, one without
\* commits, the two commits, the two commits with the child's tree missing
SampleRepos ==
    { Repository(FALSE, "", <<>>),
      Repository(TRUE, "", <<>>),
      TwoCommitRepo,
      Repository(TRUE, ChildHash,
                 <<Commit(RootHash, 0, TRUE), Commit(ChildHash, 1, FALSE)>>) }

ZeroHash == "0000000000000000000000000000000000000000"

\* plumbing.NewHash on an even number of hex digits: the decoded bytes,
\* zero-filled to the 20 bytes of a hash
NewHash(s) == SubSeq(s \o ZeroHash, 1, Len(ZeroHash))

\* repo.CommitObject(hash): the commit, or nil
CommitObject(r, hash) ==
    IF \E k \in 1..Len(r.Commits) : r.Commits[k].Hash = hash
    THEN r.Commits[CHOOSE k \in 1..Len(r.Commits) : r.Commits[k].Hash = hash]
    ELSE NilCommit

\* the first commit of the iteration whose hash has the prefix, or nil
foundCommit(r, commitHash) ==
    LET hits == SelectSeq(r.Commits, LAMBDA c : HasPrefix(c.Hash, commitHash))
    IN  IF hits # <<>> THEN Head(hits) ELSE NilCommit

\* the result of a resolution
Resolved(c, e) == [commit |-> c, err |-> e]

\* resolveCommit taking the first commit of the repository when nothing
\* matches
resolveCommit_FirstOnMiss(r, commitHash) ==
    IF commitHash = ""
    THEN IF r.Head = ""
         THEN Resolved(NilCommit, "failed to get HEAD reference: reference not found")
         ELSE IF CommitObject(r, r.Head).nil
         THEN Resolved(NilCommit, "failed to get commit object: object not found")
         ELSE Resolved(CommitObject(r, r.Head), "")
    ELSE IF ~CommitObject(r, NewHash(commitHash)).nil
    THEN Resolved(CommitObject(r, NewHash(commitHash)), "")
    ELSE IF ~foundCommit(r, commitHash).nil
    THEN Resolved(foundCommit(r, commitHash), "")
    ELSE IF r.Commits # <<>>
    THEN Resolved(Head(r.Commits), "")
    ELSE Resolved(NilCommit, "specified commit not found: " \o commitHash)

\* GetCommit resolving commitHash: HEAD for "", else the exact hash, else
\* the first commit with that hash prefix (the commit iterator itself is
\* taken not to fail)
resolveCommit(r, commitHash) ==
    IF commitHash = ""
    THEN IF r.Head = ""
         THEN Resolved(NilCommit, "failed to get HEAD reference: reference not found")
         ELSE IF CommitObject(r, r.Head).nil
         THEN Resolved(NilCommit, "failed to get commit object: object not found")
         ELSE Resolved(CommitObject(r, r.Head), "")
    ELSE IF ~CommitObject(r, NewHash(commitHash)).nil
    THEN Resolved(CommitObject(r, NewHash(commitHash)), "")
    ELSE IF ~foundCommit(r, commitHash).nil
    THEN Resolved(foundCommit(r, commitHash), "")
    ELSE Resolved(NilCommit, "specified commit not found: " \o commitHash)

----------------------------------------------------------------------------
(* configuration *)

MaxDiffSizes == {100, 1024 * 1024}

FocusConfig(enable, addFiles, modifyFiles, deleteFiles, filePatterns, ignorePatterns) ==
    [ Enable |-> enable, AddFiles |-> addFiles, ModifyFiles |-> modifyFiles,
      DeleteFiles |-> deleteFiles, FilePatterns |-> filePatterns,
      IgnorePatterns |-> ignorePatterns ]

\* the focus settings of the README's sample configuration, every flag free
ReadmeFocusConfigs ==
    { FocusConfig(e, a, m, d, <<".*\\.yaml$">>, <<"digest">>) :
        e \in BOOLEAN, a \in BOOLEAN, m \in BOOLEAN, d \in BOOLEAN }

Configs ==
    [ MaxDiffSize : MaxDiffSizes, IncludeFullDiff : BOOLEAN, ParseDiff : BOOLEAN,
      Focus : ReadmeFocusConfigs ]

\* the settings of a whole run: the commit reference, the two output
\* switches, and a focus configuration with patterns that do not compile
RunCommitHashes == {"", RootHash, "1fb2", "1f", "9e"}

RunFocusConfigs ==
    { FocusConfig(TRUE, TRUE, TRUE, TRUE, <<".*\\.yaml$">>, <<"digest">>),
      FocusConfig(TRUE, TRUE, TRUE, TRUE, <<".*\\.yaml$", "(rules">>, <<"digest">>),
      FocusConfig(TRUE, TRUE, TRUE, TRUE, <<".*\\.yaml$">>, <<"digest", "(sha">>),
      FocusConfig(FALSE, TRUE, TRUE, TRUE, <<".*\\.yaml$">>, <<"digest", "(sha">>) }

RunConfigs ==
    [ MaxDiffSize : {100}, IncludeFullDiff : {TRUE}, ParseDiff : {TRUE},
      Focus : RunFocusConfigs, CommitHash : RunCommitHashes,
      NoConsole : BOOLEAN, NoFile : BOOLEAN, PrettyJSON : {TRUE} ]

----------------------------------------------------------------------------
(* GetCommit up to the call of getCommitChanges *)

\* git.PlainOpen(repoPath)
OpenRepo ==
    /\ pc = "open"
    /\ err' = IF repo.Opens THEN err
              ELSE "failed to open local repository: repository does not exist"
    /\ pc' = IF repo.Opens THEN "resolve" ELSE "failed"
    /\ UNCHANGED <<cfg, isRoot, source, changes, stats, diffSummary, fullDiff,
                   totalDiffSize, compiledPatterns, i, filesChanged, focusFiles,
                   focusStats, commitInfo, repo, commit, changesErr, focusErr,
                   output>>

\* the commit named by commitHash, or the error returned
ResolveCommit ==
    /\ pc = "resolve"
    /\ LET r == resolveCommit(repo, cfg.CommitHash)
       IN  /\ commit' = r.commit
           /\ isRoot' = (~r.commit.nil /\ r.commit.NumParents = 0)
           /\ err' = r.err
           /\ pc' = IF r.err = "" THEN "tree" ELSE "failed"
    /\ UNCHANGED <<cfg, source, changes, stats, diffSummary, fullDiff,
                   totalDiffSize, compiledPatterns, i, filesChanged, focusFiles,
                   focusStats, commitInfo, repo, changesErr, focusErr, output>>

\* commit.Tree(); getCommitChanges then starts with its empty results
GetTree ==
    /\ pc = "tree"
    /\ err' = IF commit.TreeOK THEN err
              ELSE "failed to get tree object: object not found"
    /\ pc' = IF commit.TreeOK THEN "changes" ELSE "failed"
    /\ UNCHANGED <<cfg, isRoot, source, changes, stats, diffSummary, fullDiff,
                   totalDiffSize, compiledPatterns, i, filesChanged, focusFiles,
                   focusStats, commitInfo, repo, commit, changesErr, focusErr,
                   output>>

----------------------------------------------------------------------------
(* getCommitChanges, non-root commit *)

\* the action a file patch is recorded with ("" when both sides are nil)
actionOf(fp) ==
    IF fp.from.nil /\ ~fp.to.nil THEN "add"
    ELSE IF ~fp.from.nil /\ fp.to.nil THEN "delete"
    ELSE IF ~fp.from.nil /\ ~fp.to.nil
    THEN (IF fp.from.path # fp.to.path THEN "rename" ELSE "modify")
    ELSE ""

\* filePath
filePathOf(fp) ==
    IF fp.from.nil /\ ~fp.to.nil THEN fp.to.path
    ELSE IF ~fp.from.nil /\ fp.to.nil THEN fp.from.path
    ELSE IF ~fp.from.nil /\ ~fp.to.nil
    THEN (IF fp.from.path # fp.to.path THEN fp.to.path ELSE fp.from.path)
    ELSE ""

\* countAction with the rename branch counting nothing
countAction_NoRename(st, fp) ==
    LET a == actionOf(fp)
    IN  IF a = "add" THEN [st EXCEPT !.AddFiles = @ + 1]
        ELSE IF a = "delete" THEN [st EXCEPT !.DeleteFiles = @ + 1]
        ELSE IF a = "modify" THEN [st EXCEPT !.ModifyFiles = @ + 1]
        ELSE st

\* the per-action counter the patch increments
countAction(st, fp) ==
    LET a == actionOf(fp)
    IN  IF a = "add" THEN [st EXCEPT !.AddFiles = @ + 1]
        ELSE IF a = "delete" THEN [st EXCEPT !.DeleteFiles = @ + 1]
        ELSE IF a = "rename" THEN [st EXCEPT !.RenameFiles = @ + 1]
        ELSE IF a = "modify" THEN [st EXCEPT !.ModifyFiles = @ + 1]
        ELSE st

\* the diff header written for the patch
diffHeader(fp) ==
    LET fromPath == fp.from.path
        toPath   == fp.to.path
    IN  IF fp.from.nil /\ ~fp.to.nil
        THEN "diff --git a/" \o toPath \o " b/" \o toPath \o "\n"
                \o "new file mode 100644\n"
                \o "--- /dev/null\n"
                \o "+++ b/" \o toPath \o "\n"
        ELSE IF ~fp.from.nil /\ fp.to.nil
        THEN "diff --git a/" \o fromPath \o " b/" \o fromPath \o "\n"
                \o "deleted file mode 100644\n"
                \o "--- a/" \o fromPath \o "\n"
                \o "+++ /dev/null\n"
        ELSE IF ~fp.from.nil /\ ~fp.to.nil
        THEN (IF fromPath = toPath
              THEN "diff --git a/" \o fromPath \o " b/" \o toPath \o "\n"
                      \o "--- a/" \o fromPath \o "\n"
                      \o "+++ b/" \o toPath \o "\n"
              ELSE "diff --git a/" \o fromPath \o " b/" \o toPath \o "\n"
                      \o "rename from " \o fromPath \o "\n"
                      \o "rename to " \o toPath \o "\n")
        ELSE ""

\* the lines of a chunk: split, then the trailing empty string removed
chunkLines(content) ==
    LET lines == Split(content, NL)
    IN  IF Len(lines) > 0 /\ lines[Len(lines)] = ""
        THEN SubSeq(lines, 1, Len(lines) - 1)
        ELSE lines

\* the lines of a chunk as written to the diff, each behind `marker`
RECURSIVE writeLines(_, _, _)
writeLines(lines, k, marker) ==
    IF k > Len(lines) THEN ""
    ELSE (IF lines[k] # "" THEN marker \o lines[k] \o "\n" ELSE "")
            \o writeLines(lines, k + 1, marker)

NoChunks == [additions |-> 0, deletions |-> 0, text |-> ""]

\* the loop over filePatch.Chunks(): the two counts and the diff body
RECURSIVE foldChunks(_, _, _)
foldChunks(chunks, k, acc) ==
    IF k > Len(chunks) THEN acc
    ELSE LET lines == chunkLines(chunks[k].Content)
             lineCount == Len(lines)
         IN  IF chunks[k].Type = "Add"
             THEN foldChunks(chunks, k + 1,
                     [acc EXCEPT !.additions = @ + lineCount,
                                 !.text = @ \o writeLines(lines, 1, "+")])
             ELSE IF chunks[k].Type = "Delete"
             THEN foldChunks(chunks, k + 1,
                     [acc EXCEPT !.deletions = @ + lineCount,
                                 !.text = @ \o writeLines(lines, 1, "-")])
             ELSE foldChunks(chunks, k + 1, acc)

\* diffContentBuilder.String()
fileDiffOf(fp) == diffHeader(fp) \o foldChunks(fp.chunks, 1, NoChunks).text

\* the placeholder stored for a diff over the size limit
tooLargeText(diffSize) ==
    "// Diff content too large (" \o ToString(diffSize) \o " bytes), truncated"

\* whether the iteration for this patch sets diffSummary.DiffTooLarge
setsTooLarge(fp) ==
    ~fp.to.nil /\ Len(fileDiffOf(fp)) > cfg.MaxDiffSize

\* whether the iteration for this patch adds to totalDiffSize and fullDiff
hasDiff(fp) == ~fp.to.nil \/ ~fp.from.nil

\* changeOf with the diff parsed whatever the extension
changeOf_ParseBinary(fp) ==
    LET counts   == foldChunks(fp.chunks, 1, NoChunks)
        filePath == filePathOf(fp)
        fileDiff == fileDiffOf(fp)
        parsed   == parseDiffContent(fileDiff)
        base == [ZeroChangeInfo EXCEPT
                    !.Action = actionOf(fp),
                    !.Filepath = filePath,
                    !.OldPath = IF actionOf(fp) = "rename" THEN fp.from.path ELSE "",
                    !.NewPath = IF actionOf(fp) = "rename" THEN fp.to.path ELSE "",
                    !.Extension = GetFileExtension(filePath),
                    !.Additions = counts.additions,
                    !.Deletions = counts.deletions]
    IN  IF ~fp.to.nil
        THEN [base EXCEPT
                !.IsBinary = IsLikelyBinaryFile(filePath),
                !.AdditionsList = IF cfg.ParseDiff THEN parsed.additions ELSE <<>>,
                !.DeletionsList = IF cfg.ParseDiff THEN parsed.deletions ELSE <<>>,
                !.DiffContent =
                    IF Len(fileDiff) > cfg.MaxDiffSize
                    THEN tooLargeText(Len(fileDiff)) ELSE fileDiff]
        ELSE IF ~fp.from.nil
        THEN [base EXCEPT
                !.IsBinary = IsLikelyBinaryFile(filePath),
                !.DeletionsList = IF cfg.ParseDiff THEN parsed.deletions ELSE <<>>,
                !.DiffContent = fileDiff]
        ELSE base

\* the types.ChangeInfo appended for the patch
changeOf(fp) ==
    LET counts   == foldChunks(fp.chunks, 1, NoChunks)
        filePath == filePathOf(fp)
        fileDiff == fileDiffOf(fp)
        parsed   == parseDiffContent(fileDiff)
        isBinary == IsLikelyBinaryFile(filePath)
        base == [ZeroChangeInfo EXCEPT
                    !.Action = actionOf(fp),
                    !.Filepath = filePath,
                    !.OldPath = IF actionOf(fp) = "rename" THEN fp.from.path ELSE "",
                    !.NewPath = IF actionOf(fp) = "rename" THEN fp.to.path ELSE "",
                    !.Extension = GetFileExtension(filePath),
                    !.Additions = counts.additions,
                    !.Deletions = counts.deletions]
    IN  IF ~fp.to.nil
        THEN [base EXCEPT
                !.IsBinary = isBinary,
                !.AdditionsList =
                    IF ~isBinary /\ cfg.ParseDiff THEN parsed.additions ELSE <<>>,
                !.DeletionsList =
                    IF ~isBinary /\ cfg.ParseDiff THEN parsed.deletions ELSE <<>>,
                !.DiffContent =
                    IF Len(fileDiff) > cfg.MaxDiffSize
                    THEN tooLargeText(Len(fileDiff)) ELSE fileDiff]
        ELSE IF ~fp.from.nil
        THEN [base EXCEPT
                !.IsBinary = isBinary,
                !.DeletionsList =
                    IF ~isBinary /\ cfg.ParseDiff THEN parsed.deletions ELSE <<>>,
                !.DiffContent = fileDiff]
        ELSE base

\* statsAfterPatch with a binary file counted as binary only
statsAfterPatch_BinaryOnly(st, fp) ==
    LET counts   == foldChunks(fp.chunks, 1, NoChunks)
        isBinary == hasDiff(fp) /\ IsLikelyBinaryFile(filePathOf(fp))
        counted  == IF isBinary THEN st ELSE countAction(st, fp)
    IN  [counted EXCEPT
            !.TotalAdditions = @ + counts.additions,
            !.TotalDeletions = @ + counts.deletions,
            !.BinaryFiles = IF isBinary THEN @ + 1 ELSE @]

\* stats after the iteration for the patch
statsAfterPatch(st, fp) ==
    LET counts  == foldChunks(fp.chunks, 1, NoChunks)
        counted == countAction(st, fp)
    IN  [counted EXCEPT
            !.TotalAdditions = @ + counts.additions,
            !.TotalDeletions = @ + counts.deletions,
            !.BinaryFiles =
                IF hasDiff(fp) /\ IsLikelyBinaryFile(filePathOf(fp))
                THEN @ + 1 ELSE @]

\* one iteration of `for i, filePatch := range patch.FilePatches()`
ProcessFilePatch(fp) ==
    /\ pc = "changes"
    /\ ~isRoot
    /\ Len(source) < MaxFiles
    /\ freshPatch(fp)
    /\ source' = Append(source, fp)
    /\ changes' = Append(changes, changeOf(fp))
    /\ stats' = statsAfterPatch(stats, fp)
    /\ totalDiffSize' =
            IF hasDiff(fp) THEN totalDiffSize + Len(fileDiffOf(fp)) ELSE totalDiffSize
    /\ diffSummary' =
            IF setsTooLarge(fp) THEN [diffSummary EXCEPT !.DiffTooLarge = TRUE]
            ELSE diffSummary
    /\ fullDiff' =
            IF hasDiff(fp) /\ cfg.IncludeFullDiff
            THEN fullDiff \o fileDiffOf(fp) \o "\n\n" ELSE fullDiff
    /\ UNCHANGED <<cfg, isRoot, pc, compiledPatterns, i, filesChanged,
                   focusFiles, focusStats, commitInfo>>
    /\ UNCHANGED runVars

----------------------------------------------------------------------------
(* getCommitChanges, root commit *)

\* content as the callback sees it: "" when f.Contents() failed
contentOf(f) == IF f.Readable THEN f.Content ELSE ""

\* len(strings.Split(content, "\n"))
splitCount(content) == Len(Split(content, NL))

\* diffContent of a tracked file
rootDiffOf(f) ==
    IF ~f.Readable
    THEN "// Unable to read file content: " \o ReadErrorText \o "\n"
    ELSE "+++ b/" \o f.Name \o "\n@@ -0,0 +1,"
            \o ToString(splitCount(contentOf(f))) \o " @@\n" \o contentOf(f)

\* the types.ChangeInfo appended for a tracked file; the placeholder written
\* to the local `change` after the append does not reach the slice
rootChangeOf(f) ==
    [ZeroChangeInfo EXCEPT
        !.Action = "add",
        !.Filepath = f.Name,
        !.Additions = splitCount(contentOf(f)),
        !.Deletions = 0,
        !.DiffContent = rootDiffOf(f),
        !.Extension = GetFileExtension(f.Name),
        !.IsBinary = ~f.Readable,
        !.AdditionsList =
            IF cfg.ParseDiff /\ f.Readable
            THEN parseDiffContent(rootDiffOf(f)).additions ELSE <<>>]

\* statsAfterTreeFile without the binary counter
statsAfterTreeFile_NoBinary(st, f) == [st EXCEPT !.AddFiles = @ + 1]

\* stats after the callback for a tracked file
statsAfterTreeFile(st, f) ==
    [st EXCEPT !.AddFiles = @ + 1,
               !.BinaryFiles = IF f.Readable THEN @ ELSE @ + 1]

\* one call of the tree.Files().ForEach callback
ProcessTreeFile(f) ==
    /\ pc = "changes"
    /\ isRoot
    /\ Len(source) < MaxFiles
    /\ freshFile(f)
    /\ source' = Append(source, f)
    /\ changes' = Append(changes, rootChangeOf(f))
    /\ stats' = statsAfterTreeFile(stats, f)
    /\ totalDiffSize' = totalDiffSize + Len(rootDiffOf(f))
    /\ diffSummary' =
            IF Len(rootDiffOf(f)) > cfg.MaxDiffSize
            THEN [diffSummary EXCEPT !.DiffTooLarge = TRUE]
            ELSE diffSummary
    /\ UNCHANGED <<cfg, isRoot, pc, fullDiff, compiledPatterns, i, filesChanged,
                   focusFiles, focusStats, commitInfo>>
    /\ UNCHANGED runVars

\* stats as getCommitChanges returns it
finalStats(st, chs) == [st EXCEPT !.TotalFiles = Len(chs)]

\* finalDiffSummary with the oversize flag computed anew at the end
finalDiffSummary_FlagCleared(ds) ==
    [ds EXCEPT !.TotalDiffSize = totalDiffSize,
               !.DiffTooLarge = FALSE,
               !.FullDiff = IF ~isRoot /\ cfg.IncludeFullDiff THEN fullDiff ELSE @]

\* diffSummary as getCommitChanges returns it
finalDiffSummary(ds) ==
    [ds EXCEPT !.TotalDiffSize = totalDiffSize,
               !.FullDiff = IF ~isRoot /\ cfg.IncludeFullDiff THEN fullDiff ELSE @]

\* getCommitChanges returns without error; GetCommit sets up the focus loop
ChangesDone ==
    /\ pc = "changes"
    /\ stats' = finalStats(stats, changes)
    /\ diffSummary' = finalDiffSummary(diffSummary)
    /\ filesChanged' = <<>>
    /\ focusFiles' = <<>>
    /\ focusStats' = ZeroFocusStats
    /\ pc' = "focusInit"
    /\ UNCHANGED <<cfg, isRoot, source, changes, fullDiff, totalDiffSize,
                   compiledPatterns, i, commitInfo>>
    /\ UNCHANGED runVars

\* what getCommitChanges returns next to its error
Returned(chs, st, ds) == [changes |-> chs, stats |-> st, diffSummary |-> ds]

\* onChangesError keeping what getCommitChanges returned
onChangesError_Keep(ret) == ret

\* GetCommit on an error of getCommitChanges: the three results replaced
onChangesError(ret) == Returned(<<>>, ZeroStatsInfo, ZeroDiffSummary)

\* the error of the failing go-git call
ChangesErrorText == "object not found"

\* getCommitChanges returns an error: before the first file patch of a
\* non-root commit (parent, parent tree, current tree, patch), or out of
\* tree.Files().ForEach of a root commit, before or between files; GetCommit
\* logs it and sets up the focus loop
ChangesFail ==
    /\ pc = "changes"
    /\ isRoot \/ source = <<>>
    /\ changesErr' = ChangesErrorText
    /\ LET ret == onChangesError(Returned(changes, stats, diffSummary))
       IN  /\ changes' = ret.changes
           /\ stats' = ret.stats
           /\ diffSummary' = ret.diffSummary
    /\ filesChanged' = <<>>
    /\ focusFiles' = <<>>
    /\ focusStats' = ZeroFocusStats
    /\ pc' = "focusInit"
    /\ UNCHANGED <<cfg, isRoot, source, fullDiff, totalDiffSize,
                   compiledPatterns, i, commitInfo, repo, commit, err, focusErr,
                   output>>

----------------------------------------------------------------------------
(* internal/focus *)

\* regexp.Compile succeeds (the pattern shapes of the configuration: a
\* literal, or ".*<literal>$"; an unclosed group does not compile)
regexpValid(pattern) == ~HasSubstr(pattern, "(") \/ HasSubstr(pattern, ")")

\* the pattern text with its escaping backslashes removed
RECURSIVE unescape(_)
unescape(s) ==
    IF s = "" THEN ""
    ELSE IF SubSeq(s, 1, 1) = "\\" /\ Len(s) >= 2
    THEN SubSeq(s, 2, 2) \o unescape(SubSeq(s, 3, Len(s)))
    ELSE SubSeq(s, 1, 1) \o unescape(SubSeq(s, 2, Len(s)))

\* (*regexp.Regexp).MatchString for those shapes: unanchored unless ".*...$"
MatchString(pattern, s) ==
    IF HasPrefix(pattern, ".*") /\ HasSuffix(pattern, "$")
    THEN HasSuffix(s, unescape(SubSeq(pattern, 3, Len(pattern) - 1)))
    ELSE HasSubstr(s, unescape(pattern))

NilPatterns == [nil |-> TRUE, FilePatterns |-> <<>>, IgnorePatterns |-> <<>>]

\* compilePatterns with an empty file pattern list read as "every path"
compilePatterns_AllWhenEmpty(focusConfig) ==
    IF \/ \E k \in 1..Len(focusConfig.FilePatterns) :
            ~regexpValid(focusConfig.FilePatterns[k])
       \/ \E k \in 1..Len(focusConfig.IgnorePatterns) :
            ~regexpValid(focusConfig.IgnorePatterns[k])
    THEN [nil |-> TRUE, FilePatterns |-> <<>>, IgnorePatterns |-> <<>>]
    ELSE [nil |-> FALSE,
          FilePatterns |-> IF focusConfig.FilePatterns = <<>> THEN <<".*$">>
                           ELSE focusConfig.FilePatterns,
          IgnorePatterns |-> focusConfig.IgnorePatterns]

\* compilePatterns leaving out the patterns that do not compile
compilePatterns_SkipInvalid(focusConfig) ==
    [nil |-> FALSE,
     FilePatterns |-> SelectSeq(focusConfig.FilePatterns, regexpValid),
     IgnorePatterns |-> SelectSeq(focusConfig.IgnorePatterns, regexpValid)]

\* compilePatterns: nil on the first pattern that does not compile
compilePatterns(focusConfig) ==
    IF \/ \E k \in 1..Len(focusConfig.FilePatterns) :
            ~regexpValid(focusConfig.FilePatterns[k])
       \/ \E k \in 1..Len(focusConfig.IgnorePatterns) :
            ~regexpValid(focusConfig.IgnorePatterns[k])
    THEN NilPatterns
    ELSE [nil |-> FALSE, FilePatterns |-> focusConfig.FilePatterns,
          IgnorePatterns |-> focusConfig.IgnorePatterns]

\* the error regexp.Compile returns for a pattern that does not compile
regexpError(pattern) ==
    "error parsing regexp: missing closing ): " \o pattern

\* the patterns of a list that do not compile, in order
invalidOf(patterns) ==
    SelectSeq(patterns, LAMBDA pattern : ~regexpValid(pattern))

\* the error compilePatterns returns: that of the first pattern that does
\* not compile, file patterns before ignore patterns ("" is nil)
compileError(focusConfig) ==
    IF invalidOf(focusConfig.FilePatterns) # <<>>
    THEN "failed to compile file pattern: "
            \o Head(invalidOf(focusConfig.FilePatterns)) \o ", error: "
            \o regexpError(Head(invalidOf(focusConfig.FilePatterns)))
    ELSE IF invalidOf(focusConfig.IgnorePatterns) # <<>>
    THEN "failed to compile ignore pattern: "
            \o Head(invalidOf(focusConfig.IgnorePatterns)) \o ", error: "
            \o regexpError(Head(invalidOf(focusConfig.IgnorePatterns)))
    ELSE ""

\* isIgnoredByFilePatterns with the path check left out
isIgnoredByFilePatterns_Never(filepath, patterns) == FALSE

\* isIgnoredByFilePatterns
isIgnoredByFilePatterns(filepath, patterns) ==
    \E k \in 1..Len(patterns) : MatchString(patterns[k], filepath)

\* isLineIgnored returning after the first pattern
isLineIgnored_FirstOnly(content, patterns) ==
    Len(patterns) > 0 /\ MatchString(patterns[1], content)

\* isLineIgnored
isLineIgnored(content, patterns) ==
    \E k \in 1..Len(patterns) : MatchString(patterns[k], content)

NoMatches == [matchCount |-> 0, matchedLines |-> <<>>]

\* one of the two loops over a line list: the counter and the summaries
RECURSIVE matchLines(_, _, _)
matchLines(list, k, acc) ==
    IF k > Len(list) THEN acc
    ELSE IF ~isLineIgnored(list[k].Content, compiledPatterns.IgnorePatterns)
    THEN LET lineSummary == TruncateString(list[k].Content, 100)
         IN  matchLines(list, k + 1,
                [acc EXCEPT
                    !.matchCount = @ + 1,
                    !.matchedLines =
                        IF Len(lineSummary) > 0 /\ ~Contains(@, lineSummary)
                        THEN Append(@, lineSummary) ELSE @])
    ELSE matchLines(list, k + 1, acc)

\* types.FocusFileInfo
FocusFileInfo(filepath, action, reason, matchCount, matchLinesOf) ==
    [ Filepath |-> filepath, Action |-> action, Reason |-> reason,
      MatchCount |-> matchCount, MatchLines |-> matchLinesOf ]

\* NotFocus leaving a note of the decision in the change record
NotFocus_Marked(change) ==
    [isFocus |-> FALSE, focusFile |-> FocusFileInfo("", "", "", 0, <<>>),
     change |-> [change EXCEPT !.FocusReason = "Not focus"]]

\* the result `return nil, false`, the change untouched
NotFocus(change) ==
    [isFocus |-> FALSE, focusFile |-> FocusFileInfo("", "", "", 0, <<>>),
     change |-> change]

\* Focus counting the added lines of the change as matches
Focus_CountAdded(change, reason, matchCount, matchedLines) ==
    [isFocus |-> TRUE,
     focusFile |-> FocusFileInfo(change.Filepath, change.Action, reason,
                                 matchCount + Len(change.AdditionsList),
                                 matchedLines),
     change |-> [change EXCEPT !.IsFocus = TRUE, !.FocusReason = reason]]

\* Focus without the write to the change record
Focus_Unflagged(change, reason, matchCount, matchedLines) ==
    [isFocus |-> TRUE,
     focusFile |-> FocusFileInfo(change.Filepath, change.Action, reason,
                                 matchCount, matchedLines),
     change |-> change]

\* Focus with a reason that depends on the flag an earlier call left
Focus_ReasonByFlag(change, reason, matchCount, matchedLines) ==
    LET said == IF change.IsFocus THEN reason \o " (again)" ELSE reason
    IN  [isFocus |-> TRUE,
         focusFile |-> FocusFileInfo(change.Filepath, change.Action, said,
                                     matchCount, matchedLines),
         change |-> [change EXCEPT !.IsFocus = TRUE, !.FocusReason = said]]

\* the result `return focusFile, true`, the change flagged in place
Focus(change, reason, matchCount, matchedLines) ==
    [isFocus |-> TRUE,
     focusFile |-> FocusFileInfo(change.Filepath, change.Action, reason,
                                 matchCount, matchedLines),
     change |-> [change EXCEPT !.IsFocus = TRUE, !.FocusReason = reason]]

contentReason(matchCount) ==
    "Content doesn't match ignore patterns, match count: " \o ToString(matchCount)

\* CheckFocusChange: the decision, the focus file and the change as left
CheckFocusChange(change) ==
    IF ~cfg.Focus.Enable THEN NotFocus(change)
    ELSE IF isIgnoredByFilePatterns(change.Filepath, compiledPatterns.IgnorePatterns)
    THEN NotFocus(change)
    ELSE IF ~\E k \in 1..Len(compiledPatterns.FilePatterns) :
                MatchString(compiledPatterns.FilePatterns[k], change.Filepath)
    THEN NotFocus(change)
    ELSE IF cfg.Focus.AddFiles /\ change.Action = "add"
    THEN Focus(change, "New file", 0, <<>>)
    ELSE IF cfg.Focus.DeleteFiles /\ change.Action = "delete"
    THEN Focus(change, "Deleted file", 0, <<>>)
    ELSE IF cfg.Focus.ModifyFiles /\ change.Action = "modify"
    THEN LET m == matchLines(change.DeletionsList, 1,
                     matchLines(change.AdditionsList, 1, NoMatches))
         IN  IF m.matchCount > 0
             THEN Focus(change, contentReason(m.matchCount), m.matchCount,
                        m.matchedLines)
             ELSE NotFocus(change)
    ELSE NotFocus(change)

\* focus.Init as GetCommit calls it; the loop is skipped when it fails
FocusInit ==
    /\ pc = "focusInit"
    /\ compiledPatterns' =
            IF cfg.Focus.Enable THEN compilePatterns(cfg.Focus) ELSE compiledPatterns
    /\ focusErr' =
            IF cfg.Focus.Enable /\ compiledPatterns'.nil
            THEN "failed to compile regular expressions: " \o compileError(cfg.Focus)
            ELSE ""
    /\ i' = 1
    /\ pc' = IF (cfg.Focus.Enable /\ compiledPatterns'.nil) \/ Len(changes) = 0
             THEN "build" ELSE "focus"
    /\ UNCHANGED <<cfg, isRoot, source, changes, stats, diffSummary, fullDiff,
                   totalDiffSize, filesChanged, focusFiles, focusStats, commitInfo>>
    /\ UNCHANGED <<repo, commit, err, changesErr, output>>

\* countFocus with a deleted file counted as a content match
countFocus_DeleteAsContent(fs, action) ==
    LET total == [fs EXCEPT !.TotalFocusFiles = @ + 1]
    IN  IF action = "add"
        THEN [total EXCEPT !.AddFocusFiles = @ + 1, !.MatchPatternFiles = @ + 1]
        ELSE IF action = "modify"
        THEN [total EXCEPT !.ModifyFocusFiles = @ + 1, !.MatchContentFiles = @ + 1]
        ELSE IF action = "delete"
        THEN [total EXCEPT !.MatchContentFiles = @ + 1]
        ELSE total

\* focusStats after a focus change with this action
countFocus(fs, action) ==
    LET total == [fs EXCEPT !.TotalFocusFiles = @ + 1]
    IN  IF action = "add"
        THEN [total EXCEPT !.AddFocusFiles = @ + 1, !.MatchPatternFiles = @ + 1]
        ELSE IF action = "modify"
        THEN [total EXCEPT !.ModifyFocusFiles = @ + 1, !.MatchContentFiles = @ + 1]
        ELSE IF action = "delete"
        THEN [total EXCEPT !.MatchPatternFiles = @ + 1]
        ELSE total

\* FocusStep walking the change list from its end
FocusStep_Reversed ==
    /\ pc = "focus"
    /\ i <= Len(changes)
    /\ LET j == Len(changes) + 1 - i
           r == CheckFocusChange(changes[j])
       IN  /\ changes' = [changes EXCEPT ![j] = r.change]
           /\ filesChanged' = Append(filesChanged, changes[j].Filepath)
           /\ focusFiles' =
                IF r.isFocus THEN Append(focusFiles, r.focusFile) ELSE focusFiles
           /\ focusStats' =
                IF r.isFocus THEN countFocus(focusStats, changes[j].Action)
                ELSE focusStats
    /\ i' = i + 1
    /\ pc' = IF i = Len(changes) THEN "build" ELSE "focus"
    /\ UNCHANGED <<cfg, isRoot, source, stats, diffSummary, fullDiff,
                   totalDiffSize, compiledPatterns, commitInfo>>
    /\ UNCHANGED runVars

\* one iteration of `for i := range changes`
FocusStep ==
    /\ pc = "focus"
    /\ i <= Len(changes)
    /\ LET r == CheckFocusChange(changes[i])
       IN  /\ changes' = [changes EXCEPT ![i] = r.change]
           /\ filesChanged' = Append(filesChanged, changes[i].Filepath)
           /\ focusFiles' =
                IF r.isFocus THEN Append(focusFiles, r.focusFile) ELSE focusFiles
           /\ focusStats' =
                IF r.isFocus THEN countFocus(focusStats, changes[i].Action)
                ELSE focusStats
    /\ i' = i + 1
    /\ pc' = IF i = Len(changes) THEN "build" ELSE "focus"
    /\ UNCHANGED <<cfg, isRoot, source, stats, diffSummary, fullDiff,
                   totalDiffSize, compiledPatterns, commitInfo>>
    /\ UNCHANGED runVars

NilCommitInfo == [nil |-> TRUE]

\* currentTime.Format("20060102-150405") at some time of the run
SampleAnalyzeTime == "20240102-030405"

\* the types.CommitInfo literal (authorship, message, branch, tag and time
\* fields, which no step computes from the changes, are left out);
\* GetCommit returns it with a nil error
BuildCommitInfo ==
    /\ pc = "build"
    /\ commitInfo' =
            [ nil |-> FALSE, Hash |-> commit.Hash,
              ShortHash |-> SubSeq(commit.Hash, 1, 8),
              Changes |-> changes, FocusFiles |-> focusFiles,
              FilesChanged |-> filesChanged, Stats |-> stats,
              DiffSummary |-> diffSummary, FocusStats |-> focusStats,
              AnalyzeTime |-> SampleAnalyzeTime, OutputFile |-> "" ]
    /\ err' = ""
    /\ pc' = "done"
    /\ UNCHANGED <<cfg, isRoot, source, changes, stats, diffSummary, fullDiff,
                   totalDiffSize, compiledPatterns, i, filesChanged, focusFiles,
                   focusStats>>
    /\ UNCHANGED <<repo, commit, changesErr, focusErr, output>>

----------------------------------------------------------------------------
(* main after GetCommit *)

NoOutput == [console |-> <<>>, files |-> <<>>]

\* (*CommitInfo).ToJSON: the document of the value it is called on
ToJSON(c, pretty) == [pretty |-> pretty, document |-> c]

\* outputFilename
outputFilenameOf(c) == c.ShortHash \o "-" \o c.AnalyzeTime \o ".json"

\* GetCommit returned an error: log.Fatal ends the process
MainFatal ==
    /\ pc = "failed"
    /\ pc' = "exit1"
    /\ UNCHANGED <<cfg, isRoot, source, changes, stats, diffSummary, fullDiff,
                   totalDiffSize, compiledPatterns, i, filesChanged, focusFiles,
                   focusStats, commitInfo, repo, commit, err, changesErr,
                   focusErr, output>>

\* GetCommit returned a report: the output file name is stored in it, the
\* JSON is printed unless no_console and saved unless no_file (saving may
\* fail, which is logged)
MainOutput ==
    /\ pc = "done"
    /\ commitInfo' = [commitInfo EXCEPT !.OutputFile = outputFilenameOf(commitInfo)]
    /\ \E saved \in (IF cfg.NoFile THEN {FALSE} ELSE BOOLEAN) :
         LET jsonOutput == ToJSON(commitInfo', cfg.PrettyJSON)
         IN  output' =
                [ console |-> IF ~cfg.NoConsole THEN <<jsonOutput>> ELSE <<>>,
                  files |-> IF saved
                            THEN <<[name |-> outputFilenameOf(commitInfo),
                                    data |-> jsonOutput]>>
                            ELSE <<>> ]
    /\ pc' = "exit0"
    /\ UNCHANGED <<cfg, isRoot, source, changes, stats, diffSummary, fullDiff,
                   totalDiffSize, compiledPatterns, i, filesChanged, focusFiles,
                   focusStats, repo, commit, err, changesErr, focusErr>>

----------------------------------------------------------------------------
(* the run of GetCommit from the call of getCommitChanges on *)

Init ==
    /\ cfg \in Configs
    /\ isRoot \in BOOLEAN
    /\ source = <<>>
    /\ pc = "changes"
    /\ changes = <<>>
    /\ stats = ZeroStatsInfo
    /\ diffSummary = [ZeroDiffSummary EXCEPT !.MaxDiffSize = cfg.MaxDiffSize]
    /\ fullDiff = ""
    /\ totalDiffSize = 0
    /\ compiledPatterns = NilPatterns
    /\ i = 0
    /\ filesChanged = <<>>
    /\ focusFiles = <<>>
    /\ focusStats = ZeroFocusStats
    /\ commitInfo = NilCommitInfo
    /\ repo = TwoCommitRepo
    /\ commit = CommitObject(repo, IF isRoot THEN RootHash ELSE ChildHash)
    /\ err = ""
    /\ changesErr = ""
    /\ focusErr = ""
    /\ output = NoOutput

Next ==
    \/ \E fp \in FilePatches : ProcessFilePatch(fp)
    \/ \E f \in TreeFiles : ProcessTreeFile(f)
    \/ ChangesDone
    \/ FocusInit
    \/ FocusStep
    \/ BuildCommitInfo

Spec == Init /\ [][Next]_vars

----------------------------------------------------------------------------
(* the classifier on its own: GetCommit entered at focus.Init with one      *)
(* change record drawn from every action, path and pair of line lists       *)

SamplePaths == {"config.yaml", "digest.yaml", "old.bin"}

SampleContents == {"severity: high", "digest: 1", ""}

\* every list of at most MaxLines records of one type
LineLists(type) ==
    UNION { [1..n -> {LineChange(type, c) : c \in SampleContents}] : n \in 0..MaxLines }

\* a changed line of 102 characters, and one that differs from it in the
\* last character only
LongLine ==
    "description: a rule that matches every request whose header carries "
        \o "the marker of the internal gateway"

LongLineTwin ==
    "description: a rule that matches every request whose header carries "
        \o "the marker of the internal gatewaz"

\* modify changes that add the long line and remove nothing, the same line
\* or its twin
LongLineChanges ==
    { [ZeroChangeInfo EXCEPT
          !.Action = "modify", !.Filepath = p, !.Extension = GetFileExtension(p),
          !.Additions = 1, !.Deletions = Len(dl),
          !.AdditionsList = <<LineChange("add", LongLine)>>,
          !.DeletionsList = dl] :
        p \in SamplePaths,
        dl \in { <<>>, <<LineChange("delete", LongLine)>>,
                 <<LineChange("delete", LongLineTwin)>> } }

SampleChanges ==
    { [ZeroChangeInfo EXCEPT
          !.Action = a, !.Filepath = p, !.Extension = GetFileExtension(p),
          !.Additions = Len(al), !.Deletions = Len(dl),
          !.AdditionsList = al, !.DeletionsList = dl] :
        a \in {"add", "delete", "modify", "rename"}, p \in SamplePaths,
        al \in LineLists("add"), dl \in LineLists("delete") }
    \cup LongLineChanges

SampleFilePatterns == { <<>>, <<".*\\.yaml$">>, <<".*\\.bin$", ".*\\.yaml$">> }

SampleIgnorePatterns == { <<>>, <<"digest">>, <<"checksum", "digest">> }

\* every flag combination of an enabled focus feature, and the disabled one
SampleFocusConfigs ==
    { FocusConfig(e, a, m, d, fps, ips) :
        e \in {TRUE}, a \in BOOLEAN, m \in BOOLEAN, d \in BOOLEAN,
        fps \in SampleFilePatterns, ips \in SampleIgnorePatterns }
    \cup { FocusConfig(FALSE, TRUE, TRUE, TRUE, fps, ips) :
            fps \in SampleFilePatterns, ips \in SampleIgnorePatterns }

InitFocus ==
    /\ cfg \in [ MaxDiffSize : {1024 * 1024}, IncludeFullDiff : {FALSE},
                 ParseDiff : {TRUE}, Focus : SampleFocusConfigs ]
    /\ isRoot = FALSE
    /\ source = <<>>
    /\ pc = "focusInit"
    /\ changes \in {<<c>> : c \in SampleChanges}
    /\ stats = finalStats(ZeroStatsInfo, changes)
    /\ diffSummary = [ZeroDiffSummary EXCEPT !.MaxDiffSize = cfg.MaxDiffSize]
    /\ fullDiff = ""
    /\ totalDiffSize = 0
    /\ compiledPatterns = NilPatterns
    /\ i = 0
    /\ filesChanged = <<>>
    /\ focusFiles = <<>>
    /\ focusStats = ZeroFocusStats
    /\ commitInfo = NilCommitInfo
    /\ repo = TwoCommitRepo
    /\ commit = CommitObject(repo, ChildHash)
    /\ err = ""
    /\ changesErr = ""
    /\ focusErr = ""
    /\ output = NoOutput

NextFocus == FocusInit \/ FocusStep \/ BuildCommitInfo

SpecFocus == InitFocus /\ [][NextFocus]_vars

----------------------------------------------------------------------------
(* the whole run: main calls GetCommit on the configured repository and     *)
(* commit reference, then writes the report                                 *)

InitRun ==
    /\ cfg \in RunConfigs
    /\ repo \in SampleRepos
    /\ commit = NilCommit
    /\ isRoot = FALSE
    /\ source = <<>>
    /\ pc = "open"
    /\ changes = <<>>
    /\ stats = ZeroStatsInfo
    /\ diffSummary = [ZeroDiffSummary EXCEPT !.MaxDiffSize = cfg.MaxDiffSize]
    /\ fullDiff = ""
    /\ totalDiffSize = 0
    /\ compiledPatterns = NilPatterns
    /\ i = 0
    /\ filesChanged = <<>>
    /\ focusFiles = <<>>
    /\ focusStats = ZeroFocusStats
    /\ commitInfo = NilCommitInfo
    /\ err = ""
    /\ changesErr = ""
    /\ focusErr = ""
    /\ output = NoOutput

NextRun ==
    \/ OpenRepo
    \/ ResolveCommit
    \/ GetTree
    \/ \E fp \in FilePatches : ProcessFilePatch(fp)
    \/ \E f \in TreeFiles : ProcessTreeFile(f)
    \/ ChangesDone
    \/ ChangesFail
    \/ FocusInit
    \/ FocusStep
    \/ BuildCommitInfo
    \/ MainFatal
    \/ MainOutput

SpecRun == InitRun /\ [][NextRun]_vars

----------------------------------------------------------------------------
(* vocabulary of the properties *)

\* change k has been through CheckFocusChange
Classified(k) == pc \in {"focus", "build", "done"} /\ k < i

\* the path matches an ignore pattern / a target pattern of the configuration
PathIgnored(path) ==
    \E n \in 1..Len(cfg.Focus.IgnorePatterns) :
        MatchString(cfg.Focus.IgnorePatterns[n], path)

PathTargeted(path) ==
    \E n \in 1..Len(cfg.Focus.FilePatterns) :
        MatchString(cfg.Focus.FilePatterns[n], path)

\* the text matches no ignore pattern of the configuration
NotIgnoredText(text) ==
    \A n \in 1..Len(cfg.Focus.IgnorePatterns) :
        ~MatchString(cfg.Focus.IgnorePatterns[n], text)

\* the contents of a list of line records
ContentsOf(list) == [n \in 1..Len(list) |-> list[n].Content]

\* the lines of the chunks of one type, in order
RECURSIVE ChunkLinesOfType(_, _)
ChunkLinesOfType(chunks, type) ==
    IF chunks = <<>> THEN <<>>
    ELSE (IF Head(chunks).Type = type THEN chunkLines(Head(chunks).Content) ELSE <<>>)
            \o ChunkLinesOfType(Tail(chunks), type)

\* the diff text synthesized for the k-th file of the commit
SynthesizedDiff(k) ==
    IF isRoot THEN rootDiffOf(source[k]) ELSE fileDiffOf(source[k])

\* the number of lines of a text file: its newline-terminated lines, and one
\* more for a last line without a newline
LineCountOf(content) ==
    Cardinality({n \in 1..Len(content) : SubSeq(content, n, n) = NL})
        + (IF content # "" /\ ~HasSuffix(content, NL) THEN 1 ELSE 0)

\* the per-action counters of a types.StatsInfo, summed
ActionSum(st) ==
    st.AddFiles + st.DeleteFiles + st.ModifyFiles + st.RenameFiles + st.CopyFiles

----------------------------------------------------------------------------
(* C1: round trip.  For every non-binary change of a non-root commit with   *)
(* parse_diff on, the parsed additions are exactly the lines of the Add     *)
(* chunks, the parsed deletions exactly the lines of the Delete chunks, in  *)
(* order, and the list lengths equal the Additions and Deletions counts.    *)
(* Stated as the claim has it; the code drops empty lines and lines that    *)
(* begin with "++ " or "-- " on the way.                                    *)
C1_RoundTrip ==
    \A k \in 1..Len(changes) :
        (~isRoot /\ cfg.ParseDiff /\ ~changes[k].IsBinary) =>
            /\ ContentsOf(changes[k].AdditionsList)
                    = ChunkLinesOfType(source[k].chunks, "Add")
            /\ ContentsOf(changes[k].DeletionsList)
                    = ChunkLinesOfType(source[k].chunks, "Delete")
            /\ Len(changes[k].AdditionsList) = changes[k].Additions
            /\ Len(changes[k].DeletionsList) = changes[k].Deletions

(* C2: ignore precedence.  A change whose path matches an ignore pattern    *)
(* comes out of CheckFocusChange not focus: IsFocus false, FocusReason      *)
(* empty, no focus file, whatever the action, the flags and the target     *)
(* patterns.                                                                *)
C2_IgnorePrecedence ==
    \A k \in 1..Len(changes) :
        (Classified(k) /\ PathIgnored(changes[k].Filepath)) =>
            /\ ~changes[k].IsFocus
            /\ changes[k].FocusReason = ""
            /\ \A n \in 1..Len(focusFiles) :
                    focusFiles[n].Filepath # changes[k].Filepath

\* an added file on a targeted and ignored path, add-focus on, was classified
C2_Witness ==
    /\ Classified(1)
    /\ cfg.Focus.Enable /\ cfg.Focus.AddFiles
    /\ changes[1].Action = "add"
    /\ PathTargeted(changes[1].Filepath)
    /\ PathIgnored(changes[1].Filepath)

(* C3: additivity.  After each file is folded in, the per-action counters   *)
(* sum to the number of changes appended so far; in the report TotalFiles   *)
(* and that sum both equal the number of file changes of the commit.        *)
C3_Additivity ==
    /\ ActionSum(stats) = Len(changes)
    /\ Len(changes) = Len(source)
    /\ pc = "done" =>
        /\ commitInfo.Stats.TotalFiles = Len(source)
        /\ ActionSum(commitInfo.Stats) = Len(source)

\* a report of a commit that renamed one file and deleted another
C3_Witness ==
    /\ pc = "done"
    /\ Len(source) = 2
    /\ commitInfo.Stats.RenameFiles = 1
    /\ commitInfo.Stats.DeleteFiles = 1

(* C4: oversize replacement.  Every change of the report whose diff text    *)
(* is longer than MaxDiffSize carries the truncation placeholder, the       *)
(* report's DiffTooLarge is set, and its counts are those of the chunks     *)
(* (of the file content at a root commit).  Stated as the claim has it;     *)
(* root-commit files and deleted files keep their diff text.                *)
C4_OversizeReplaced ==
    pc = "done" =>
        \A k \in 1..Len(source) :
            Len(SynthesizedDiff(k)) > cfg.MaxDiffSize =>
                /\ commitInfo.Changes[k].DiffContent
                        = tooLargeText(Len(SynthesizedDiff(k)))
                /\ commitInfo.DiffSummary.DiffTooLarge
                /\ ~isRoot =>
                    /\ commitInfo.Changes[k].Additions
                            = Len(ChunkLinesOfType(source[k].chunks, "Add"))
                    /\ commitInfo.Changes[k].Deletions
                            = Len(ChunkLinesOfType(source[k].chunks, "Delete"))

(* C5: oversize flag exactness.  In the report DiffTooLarge is true if and  *)
(* only if some file change of the commit, deleted files included, had a    *)
(* diff text longer than MaxDiffSize.  Stated as the claim has it; the      *)
(* branch for deleted files never sets the flag.                            *)
C5_OversizeFlagExact ==
    pc = "done" =>
        (commitInfo.DiffSummary.DiffTooLarge
            <=> \E k \in 1..Len(source) :
                    Len(SynthesizedDiff(k)) > cfg.MaxDiffSize)

(* C6: focus counter additivity.  In the report TotalFocusFiles equals      *)
(* AddFocusFiles + ModifyFocusFiles + DeleteFocusFiles.  Stated as the      *)
(* claim has it; DeleteFocusFiles is never incremented.                     *)
C6_FocusAdditivity ==
    pc = "done" =>
        commitInfo.FocusStats.TotalFocusFiles
            = commitInfo.FocusStats.AddFocusFiles
                + commitInfo.FocusStats.ModifyFocusFiles
                + commitInfo.FocusStats.DeleteFocusFiles

\* the records of a change's two line lists that match no ignore pattern
NotIgnoredCount(change) ==
    Cardinality({n \in 1..Len(change.AdditionsList) :
                    NotIgnoredText(change.AdditionsList[n].Content)})
    + Cardinality({n \in 1..Len(change.DeletionsList) :
                    NotIgnoredText(change.DeletionsList[n].Content)})

\* modify-focus applies to the change: enabled, targeted, not ignored
ModifyEligible(change) ==
    /\ cfg.Focus.Enable /\ cfg.Focus.ModifyFiles
    /\ change.Action = "modify"
    /\ PathTargeted(change.Filepath)
    /\ ~PathIgnored(change.Filepath)

(* C7: modify classification.  A "modify" change that modify-focus applies  *)
(* to is focus iff some record of its two line lists matches no ignore      *)
(* pattern; then MatchCount is the number of such records, duplicates       *)
(* counted, and the reason text contains that number; otherwise the change  *)
(* is left not focus and no focus file is produced.                         *)
C7_ModifyClassification ==
    (Classified(1) /\ ModifyEligible(changes[1])) =>
        LET n == NotIgnoredCount(changes[1])
        IN  /\ changes[1].IsFocus <=> n > 0
            /\ n > 0 =>
                /\ Len(focusFiles) = 1
                /\ focusFiles[1].Filepath = changes[1].Filepath
                /\ focusFiles[1].Action = "modify"
                /\ focusFiles[1].MatchCount = n
                /\ HasSuffix(focusFiles[1].Reason, ": " \o ToString(n))
                /\ changes[1].FocusReason = focusFiles[1].Reason
            /\ n = 0 =>
                /\ focusFiles = <<>>
                /\ changes[1].FocusReason = ""

\* a modify change that adds and removes the same not-ignored text was
\* classified under a non-empty ignore list: the count is 2
C7_Witness ==
    /\ Classified(1) /\ ModifyEligible(changes[1])
    /\ cfg.Focus.IgnorePatterns # <<>>
    /\ NotIgnoredCount(changes[1]) = 2
    /\ ContentsOf(changes[1].AdditionsList) = ContentsOf(changes[1].DeletionsList)
    /\ changes[1].IsFocus
    /\ Len(focusFiles[1].MatchLines) = 1

\* a line the commit added to or removed from the k-th file matches no
\* ignore pattern
ChangedNotIgnoredLine(k) ==
    \E type \in {"Add", "Delete"} :
        LET lines == ChunkLinesOfType(source[k].chunks, type)
        IN  \E n \in 1..Len(lines) : NotIgnoredText(lines[n])

(* C8: end-to-end modify focus.  With focus and modify_files enabled,       *)
(* every modified file on a targeted, not ignored path whose commit changed *)
(* a line that matches no ignore pattern is focus in the report, whatever   *)
(* parse_diff is.  Stated as the claim has it; without parse_diff the line  *)
(* lists are empty and no modified file is focus.                           *)
C8_ModifyFocusEndToEnd ==
    (pc = "done" /\ ~isRoot) =>
        \A k \in 1..Len(source) :
            (/\ cfg.Focus.Enable /\ cfg.Focus.ModifyFiles
             /\ actionOf(source[k]) = "modify"
             /\ PathTargeted(filePathOf(source[k]))
             /\ ~PathIgnored(filePathOf(source[k]))
             /\ ChangedNotIgnoredLine(k))
                => commitInfo.Changes[k].IsFocus

\* delete-focus applies to the change about to be classified
DeleteEligible(change) ==
    /\ cfg.Focus.Enable /\ cfg.Focus.DeleteFiles
    /\ change.Action = "delete"
    /\ PathTargeted(change.Filepath)
    /\ ~PathIgnored(change.Filepath)

(* C9: deleted focus file.  Classifying a "delete" change that delete-focus *)
(* applies to appends a focus file whose reason reads "deleted file" (the   *)
(* code capitalises it), flags the change with the same reason, and folds   *)
(* it into FocusStats with MatchPatternFiles one higher and                 *)
(* MatchContentFiles unchanged.                                             *)
C9_DeletedFocusFile ==
    [][ (pc = "focus" /\ i <= Len(changes) /\ DeleteEligible(changes[i])) =>
            /\ Len(focusFiles') = Len(focusFiles) + 1
            /\ focusFiles'[Len(focusFiles')].Filepath = changes[i].Filepath
            /\ focusFiles'[Len(focusFiles')].Action = "delete"
            /\ ToLower(focusFiles'[Len(focusFiles')].Reason) = "deleted file"
            /\ changes'[i].IsFocus
            /\ changes'[i].FocusReason = focusFiles'[Len(focusFiles')].Reason
            /\ focusStats'.MatchPatternFiles = focusStats.MatchPatternFiles + 1
            /\ focusStats'.MatchContentFiles = focusStats.MatchContentFiles
      ]_vars

\* a deleted file was classified as focus after another focus file
C9_Witness ==
    /\ Classified(2)
    /\ DeleteEligible(changes[2])
    /\ changes[2].IsFocus
    /\ Len(focusFiles) = 2
    /\ focusStats.MatchPatternFiles >= 1

(* C10: root commit counts.  At a root commit every readable tracked file   *)
(* yields one "add" change with Deletions 0 and Additions equal to the      *)
(* file's number of lines, the hunk header declares that number, and Stats  *)
(* has AddFiles = TotalFiles = number of tracked files.  Stated as the      *)
(* claim has it; the code counts the pieces of a split on "\n", one more    *)
(* than the lines of a file that ends with a newline.                       *)
C10_RootCounts ==
    (pc = "done" /\ isRoot) =>
        /\ Len(commitInfo.Changes) = Len(source)
        /\ commitInfo.Stats.AddFiles = Len(source)
        /\ commitInfo.Stats.TotalFiles = Len(source)
        /\ \A k \in 1..Len(source) :
            /\ commitInfo.Changes[k].Action = "add"
            /\ commitInfo.Changes[k].Deletions = 0
            /\ source[k].Readable =>
                /\ commitInfo.Changes[k].Additions = LineCountOf(source[k].Content)
                /\ HasSubstr(SynthesizedDiff(k),
                        "@@ -0,0 +1," \o ToString(LineCountOf(source[k].Content))
                            \o " @@\n")

(* C11: match summaries.  Every entry of a focus file's MatchLines is at    *)
(* most 100 characters long and no two entries of one MatchLines list are   *)
(* equal, whatever the length of the changed lines.  Stated as the claim    *)
(* has it; TruncateString appends a 24-character marker to the first 100    *)
(* characters of a longer line.                                             *)
C11_MatchSummaries ==
    \A n \in 1..Len(focusFiles) :
        LET lines == focusFiles[n].MatchLines
        IN  /\ \A k \in 1..Len(lines) : Len(lines[k]) <= 100
            /\ \A k \in 1..Len(lines) : \A m \in 1..Len(lines) :
                    lines[k] = lines[m] => k = m

(* C12: idempotence.  A second call of CheckFocusChange on a change record  *)
(* the first call has been through, under the same configuration and        *)
(* compiled patterns, returns the decision, reason, match count and match   *)
(* lines of the first call, and leaves the record as the first call left    *)
(* it.                                                                      *)
C12_Idempotence ==
    Classified(1) =>
        LET second == CheckFocusChange(changes[1])
        IN  /\ second.isFocus = changes[1].IsFocus
            /\ second.change = changes[1]
            /\ second.isFocus => focusFiles = <<second.focusFile>>
            /\ ~second.isFocus => focusFiles = <<>>

\* a modify change was classified as focus with two matching lines, and a
\* second call on the flagged record says focus again
C12_Witness ==
    /\ Classified(1)
    /\ changes[1].Action = "modify"
    /\ changes[1].IsFocus
    /\ focusFiles[1].MatchCount = 2
    /\ CheckFocusChange(changes[1]).isFocus

\* the change records of a list that carry the focus flag, in order
Flagged(chs) == SelectSeq(chs, LAMBDA c : c.IsFocus)

(* C13: focus list consistency.  In every report a change has IsFocus set   *)
(* iff the focus-file list holds an entry with its path and action; the     *)
(* focus-file list is, entry by entry and in change order, the flagged      *)
(* changes: same path, same action, Reason equal to the FocusReason.        *)
C13_FocusListConsistent ==
    pc = "done" =>
        LET flagged == Flagged(commitInfo.Changes)
            files   == commitInfo.FocusFiles
        IN  /\ Len(files) = Len(flagged)
            /\ \A n \in 1..Len(files) :
                    /\ files[n].Filepath = flagged[n].Filepath
                    /\ files[n].Action = flagged[n].Action
                    /\ files[n].Reason = flagged[n].FocusReason
            /\ \A k \in 1..Len(commitInfo.Changes) :
                    commitInfo.Changes[k].IsFocus <=>
                        \E n \in 1..Len(files) :
                            /\ files[n].Filepath = commitInfo.Changes[k].Filepath
                            /\ files[n].Action = commitInfo.Changes[k].Action

\* a report whose first change is not focus and whose second is
C13_Witness ==
    /\ pc = "done"
    /\ Len(commitInfo.Changes) >= 2
    /\ ~commitInfo.Changes[1].IsFocus
    /\ commitInfo.Changes[2].IsFocus
    /\ Len(commitInfo.FocusFiles) = 1

\* some configured file pattern or ignore pattern is no regular expression
PatternsInvalid ==
    \/ \E n \in 1..Len(cfg.Focus.FilePatterns) :
            ~regexpValid(cfg.Focus.FilePatterns[n])
    \/ \E n \in 1..Len(cfg.Focus.IgnorePatterns) :
            ~regexpValid(cfg.Focus.IgnorePatterns[n])

\* focus.Init has returned
FocusInitDone == pc \in {"focus", "build", "done", "exit0"}

RefMatchesNoCommit ==
    /\ cfg.CommitHash # ""
    /\ \A n \in 1..Len(repo.Commits) :
            /\ repo.Commits[n].Hash # cfg.CommitHash
            /\ ~HasPrefix(repo.Commits[n].Hash, cfg.CommitHash)

\* the tree of the resolved commit cannot be retrieved
TreeMissing == ~commit.nil /\ ~commit.TreeOK

(* C15: fatal errors.  When the repository does not open, the commit        *)
(* reference matches no commit (neither as a hash nor as a hash prefix), or *)
(* the tree of the commit cannot be retrieved, GetCommit never gets to the  *)
(* change set: it returns an error and no report, and the run ends without  *)
(* printing or saving any JSON.                                             *)
C15_FatalErrors ==
    (~repo.Opens \/ RefMatchesNoCommit \/ TreeMissing) =>
        /\ pc \in {"open", "resolve", "tree", "failed", "exit1"}
        /\ pc \in {"failed", "exit1"} => err # ""
        /\ commitInfo.nil
        /\ output = NoOutput

\* the run has ended on a reference that matches neither commit of a
\* repository that opens, with console and file output both switched on
C15_Witness ==
    /\ pc = "exit1"
    /\ repo.Opens
    /\ Len(repo.Commits) = 2
    /\ RefMatchesNoCommit
    /\ ~cfg.NoConsole /\ ~cfg.NoFile
    /\ HasPrefix(err, "specified commit not found")

(* C16: degraded change set.  When getCommitChanges returns an error (at a  *)
(* non-root commit before the first file patch, at a root commit before or  *)
(* between the files of the tree), GetCommit goes on without error and      *)
(* returns a report whose change list is empty, whose Stats counters are    *)
(* all zero and whose focus-file list is empty: nothing accumulated before  *)
(* the failure is left in the results or in the report.                     *)
C16_DegradedChangeSet ==
    changesErr # "" =>
        /\ pc \notin {"failed", "exit1"}
        /\ err = ""
        /\ changes = <<>>
        /\ stats = ZeroStatsInfo
        /\ focusFiles = <<>>
        /\ pc \in {"done", "exit0"} =>
            /\ ~commitInfo.nil
            /\ commitInfo.Changes = <<>>
            /\ commitInfo.Stats = ZeroStatsInfo
            /\ commitInfo.FocusFiles = <<>>

\* a report of a root commit whose file iteration failed after two files,
\* one of them on a target path
C16_Witness ==
    /\ pc = "done"
    /\ changesErr # ""
    /\ isRoot
    /\ Len(source) = 2
    /\ \E k \in 1..2 : PathTargeted(source[k].Name)
    /\ cfg.Focus.Enable /\ ~PatternsInvalid

\* the tracked files among the first n that could not be read
Unreadable(n) == {k \in 1..n : ~source[k].Readable}

(* C17: unreadable root-commit file.  At a root commit every tracked file   *)
(* yielded so far has its change record, in order, whether or not a file    *)
(* before or after it could be read; the record of a file that could not be *)
(* read is an "add" with IsBinary set, the read-failure placeholder as its  *)
(* diff text and empty line lists; the binary counter counts those files,   *)
(* during the iteration and in the report.                                  *)
C17_UnreadableRootFile ==
    isRoot =>
        /\ Len(changes) = Len(source)
        /\ stats.BinaryFiles = Cardinality(Unreadable(Len(source)))
        /\ \A k \in 1..Len(source) :
            /\ changes[k].Filepath = source[k].Name
            /\ changes[k].Action = "add"
            /\ ~source[k].Readable =>
                /\ changes[k].IsBinary
                /\ HasPrefix(changes[k].DiffContent,
                             "// Unable to read file content: ")
                /\ changes[k].AdditionsList = <<>>
                /\ changes[k].DeletionsList = <<>>
        /\ pc = "done" =>
            /\ Len(commitInfo.Changes) = Len(source)
            /\ commitInfo.Stats.BinaryFiles = Cardinality(Unreadable(Len(source)))

\* a report of a root commit whose first file could not be read and whose
\* second could
C17_Witness ==
    /\ pc = "done"
    /\ isRoot
    /\ Len(source) >= 2
    /\ ~source[1].Readable
    /\ source[2].Readable
    /\ commitInfo.Changes[1].IsBinary
    /\ ~commitInfo.Changes[2].IsBinary
    /\ commitInfo.Stats.BinaryFiles = 1

\* the lines of a text file: the pieces between newlines, without the empty
\* piece after a final newline
FileLines(content) ==
    LET pieces == Split(content, NL)
    IN  IF pieces[Len(pieces)] = "" THEN SubSeq(pieces, 1, Len(pieces) - 1)
        ELSE pieces

(* C18: root commit line lists.  At a root commit with parse_diff on, the   *)
(* additions list of every readable file holds one "add" record per line of *)
(* the file, in file order, with the whole line as content, whatever the    *)
(* line starts with.  Stated as the claim has it; the file content is put   *)
(* behind the hunk header without "+" markers, and parseDiffContent keeps   *)
(* only lines that start with "+" (without that first character).           *)
C18_RootLineLists ==
    (isRoot /\ cfg.ParseDiff) =>
        \A k \in 1..Len(changes) :
            source[k].Readable =>
                /\ ContentsOf(changes[k].AdditionsList)
                        = FileLines(source[k].Content)
                /\ \A n \in 1..Len(changes[k].AdditionsList) :
                        changes[k].AdditionsList[n].Type = "add"

\* the byte lengths of the diff texts synthesized for the first n files
RECURSIVE SumDiffSizes(_)
SumDiffSizes(n) ==
    IF n = 0 THEN 0 ELSE SumDiffSizes(n - 1) + Len(SynthesizedDiff(n))

RECURSIVE ConcatDiffs(_, _)
ConcatDiffs(n, sep) ==
    IF n = 0 THEN "" ELSE ConcatDiffs(n - 1, sep) \o SynthesizedDiff(n) \o sep

(* C20: full diff opt-in.  In the report FullDiff is empty when             *)
(* include_full_diff is off; when it is on, FullDiff is the diff texts      *)
(* synthesized for the files of the commit, in change order, one after the  *)
(* other (directly, or each followed by a blank line as the code writes     *)
(* them), at root and non-root commits alike.  Stated as the claim has it;  *)
(* the root-commit branch never assigns FullDiff.                           *)
C20_FullDiffOptIn ==
    pc = "done" =>
        IF cfg.IncludeFullDiff
        THEN \/ commitInfo.DiffSummary.FullDiff = ConcatDiffs(Len(source), "")
             \/ commitInfo.DiffSummary.FullDiff = ConcatDiffs(Len(source), "\n\n")
        ELSE commitInfo.DiffSummary.FullDiff = ""

\* add-focus applies to the change: enabled, targeted, not ignored
AddEligible(change) ==
    /\ cfg.Focus.Enable /\ cfg.Focus.AddFiles
    /\ change.Action = "add"
    /\ PathTargeted(change.Filepath)
    /\ ~PathIgnored(change.Filepath)

(* C21: added focus file.  An "add" change that add-focus applies to is     *)
(* focus with the reason "new file" (the code capitalises it), MatchCount   *)
(* zero and MatchLines empty, whatever its added lines are: the ignore      *)
(* patterns are not applied to them.                                        *)
C21_AddedFocusFile ==
    (Classified(1) /\ AddEligible(changes[1])) =>
        /\ changes[1].IsFocus
        /\ Len(focusFiles) = 1
        /\ focusFiles[1].Filepath = changes[1].Filepath
        /\ focusFiles[1].Action = "add"
        /\ ToLower(focusFiles[1].Reason) = "new file"
        /\ changes[1].FocusReason = focusFiles[1].Reason
        /\ focusFiles[1].MatchCount = 0
        /\ focusFiles[1].MatchLines = <<>>

\* an added file whose only added line matches an ignore pattern was
\* classified as focus
C21_Witness ==
    /\ Classified(1) /\ AddEligible(changes[1])
    /\ Len(changes[1].AdditionsList) = 1
    /\ ~NotIgnoredText(changes[1].AdditionsList[1].Content)
    /\ changes[1].IsFocus
    /\ focusFiles[1].MatchCount = 0

(* C22: target path gate.  A change whose path matches none of the          *)
(* configured file patterns is not focus, whatever its action, its lines    *)
(* and the flags; with an empty file pattern list no change is focus.       *)
C22_TargetPathGate ==
    \A k \in 1..Len(changes) :
        (Classified(k) /\ ~PathTargeted(changes[k].Filepath)) =>
            /\ ~changes[k].IsFocus
            /\ changes[k].FocusReason = ""
            /\ \A n \in 1..Len(focusFiles) :
                    focusFiles[n].Filepath # changes[k].Filepath

\* an added file was classified under an enabled configuration with
\* add-focus on and no file pattern at all
C22_Witness ==
    /\ Classified(1)
    /\ cfg.Focus.Enable /\ cfg.Focus.AddFiles
    /\ cfg.Focus.FilePatterns = <<>>
    /\ cfg.Focus.IgnorePatterns = <<>>
    /\ changes[1].Action = "add"
    /\ focusFiles = <<>>

\* the action of the change is rename, or it is add, modify or delete and
\* the flag of that action is off
ActionNotEnabled(change) ==
    \/ change.Action = "rename"
    \/ change.Action = "add" /\ ~cfg.Focus.AddFiles
    \/ change.Action = "modify" /\ ~cfg.Focus.ModifyFiles
    \/ change.Action = "delete" /\ ~cfg.Focus.DeleteFiles

(* C23: disabled and rename outcomes.  The classification of a rename       *)
(* change, or of an add, modify or delete change whose flag is off, leaves  *)
(* the change record as it was, not focus, and adds no focus file and no    *)
(* focus count, whatever the path and the lines of the change.              *)
C23_DisabledAndRename ==
    [][ (pc = "focus" /\ i <= Len(changes) /\ ActionNotEnabled(changes[i])) =>
            /\ changes' = changes
            /\ ~changes'[i].IsFocus
            /\ focusFiles' = focusFiles
            /\ focusStats' = focusStats ]_vars

\* a rename change on a target path that no ignore pattern matches, with a
\* changed line that no ignore pattern matches, was classified with every
\* flag on and is not focus
C23_Witness ==
    /\ Classified(1)
    /\ cfg.Focus.Enable
    /\ cfg.Focus.AddFiles /\ cfg.Focus.ModifyFiles /\ cfg.Focus.DeleteFiles
    /\ changes[1].Action = "rename"
    /\ PathTargeted(changes[1].Filepath) /\ ~PathIgnored(changes[1].Filepath)
    /\ NotIgnoredCount(changes[1]) > 0
    /\ ~changes[1].IsFocus /\ changes[1].FocusReason = ""
    /\ focusFiles = <<>>

(* C24: binary files carry no line lists.  Every change with IsBinary set,  *)
(* in the change list and in the report, of a root or a non-root commit and *)
(* of any action, has an empty additions list and an empty deletions list.  *)
C24_BinaryNoLines ==
    /\ \A k \in 1..Len(changes) :
            changes[k].IsBinary =>
                changes[k].AdditionsList = <<>> /\ changes[k].DeletionsList = <<>>
    /\ ~commitInfo.nil =>
            \A k \in 1..Len(commitInfo.Changes) :
                commitInfo.Changes[k].IsBinary =>
                    /\ commitInfo.Changes[k].AdditionsList = <<>>
                    /\ commitInfo.Changes[k].DeletionsList = <<>>

\* a report with parse_diff on whose changes are a modified and a deleted
\* file of a binary extension, both with changed lines
C24_Witness ==
    /\ ~commitInfo.nil /\ ~isRoot /\ cfg.ParseDiff
    /\ Len(commitInfo.Changes) = 2
    /\ commitInfo.Changes[1].Action = "modify"
    /\ commitInfo.Changes[2].Action = "delete"
    /\ \A k \in 1..2 :
            /\ commitInfo.Changes[k].IsBinary
            /\ commitInfo.Changes[k].Additions + commitInfo.Changes[k].Deletions > 0
            /\ commitInfo.Changes[k].AdditionsList = <<>>
            /\ commitInfo.Changes[k].DeletionsList = <<>>

\* no line of the text begins with "@@"
NoHunkMarker(text) ==
    \A n \in 1..Len(Split(text, NL)) : ~HasPrefix(Split(text, NL)[n], "@@")

(* C25: parser on text without hunk markers.  Whenever parseDiffContent is  *)
(* applied to a diff text none of whose lines begins with "@@", it returns  *)
(* an empty additions list and an empty deletions list, and so the change   *)
(* record carries none.  Stated as the claim has it; the code has a second  *)
(* mode for such text that collects the "+" and "-" lines after the first   *)
(* header line.                                                             *)
C25_NoHunkNoLines ==
    \A k \in 1..Len(changes) :
        (cfg.ParseDiff /\ ~changes[k].IsBinary /\ NoHunkMarker(SynthesizedDiff(k))) =>
            /\ parseDiffContent(SynthesizedDiff(k)) = NoLines
            /\ changes[k].AdditionsList = <<>>
            /\ changes[k].DeletionsList = <<>>

(* C26: per-file sequencing.  A step that appends a change appends the      *)
(* record synthesized and parsed from the next file of the commit, before   *)
(* any classification of the run.  A step that classifies takes the changes *)
(* in the order of the change list: the n-th classification is of the n-th  *)
(* change, which is then still the record that was synthesized and parsed   *)
(* for the n-th file, and it touches no other change.  A change is flagged  *)
(* by its own classification step only.                                     *)
C26_PerFileSequencing ==
    [][ /\ Len(changes') > Len(changes) =>
            /\ pc = "changes" /\ filesChanged = <<>>
            /\ \A k \in 1..Len(changes) : ~changes[k].IsFocus
            /\ Len(changes') = Len(changes) + 1
            /\ Len(source') = Len(changes')
            /\ \A k \in 1..Len(changes) : changes'[k] = changes[k]
            /\ changes'[Len(changes')] =
                    IF isRoot THEN rootChangeOf(source'[Len(source')])
                    ELSE changeOf(source'[Len(source')])
        /\ Len(filesChanged') > Len(filesChanged) =>
            LET n == Len(filesChanged')
            IN  /\ pc = "focus"
                /\ n = Len(filesChanged) + 1
                /\ n <= Len(changes) /\ Len(changes') = Len(changes)
                /\ source' = source
                /\ changes[n] = IF isRoot THEN rootChangeOf(source[n])
                                 ELSE changeOf(source[n])
                /\ filesChanged' = Append(filesChanged, changes[n].Filepath)
                /\ changes'[n] = CheckFocusChange(changes[n]).change
                /\ \A k \in 1..Len(changes) : k # n => changes'[k] = changes[k]
        /\ \A k \in 1..Len(changes) :
            (k <= Len(changes') /\ changes'[k] # changes[k]) =>
                Len(filesChanged') = k /\ Len(filesChanged) = k - 1
      ]_vars

\* a report of a non-root commit of two files, the second of which was
\* parsed into lines and then classified as focus, after the first
C26_Witness ==
    /\ ~commitInfo.nil /\ ~isRoot /\ cfg.ParseDiff
    /\ Len(changes) = 2
    /\ filesChanged = <<changes[1].Filepath, changes[2].Filepath>>
    /\ changes[1].Filepath # changes[2].Filepath
    /\ ~changes[1].IsFocus
    /\ changes[2].IsFocus
    /\ changes[2].AdditionsList # <<>>
    /\ ContentsOf(changes[2].AdditionsList)
            = ContentsOf(parseDiffContent(SynthesizedDiff(2)).additions)

\* the JSON documents printed and saved so far
Written(out) ==
    { out.console[n].document : n \in 1..Len(out.console) }
        \cup { out.files[n].data.document : n \in 1..Len(out.files) }

(* C27: report immutability.  Once GetCommit has returned the CommitInfo    *)
(* no step changes a field of it, and every JSON document that is printed   *)
(* or saved is the document of the value GetCommit returned.  Stated as the *)
(* claim has it; main stores the output file name in the report before it   *)
(* formats the JSON that is written.                                        *)
C27_ReportImmutable ==
    [][ ~commitInfo.nil =>
            /\ commitInfo' = commitInfo
            /\ \A d \in Written(output') : d = commitInfo ]_vars

\* the Additions / the Deletions of the first n changes, summed
RECURSIVE SumAdditions(_, _)
SumAdditions(chs, n) ==
    IF n = 0 THEN 0 ELSE SumAdditions(chs, n - 1) + chs[n].Additions

RECURSIVE SumDeletions(_, _)
SumDeletions(chs, n) ==
    IF n = 0 THEN 0 ELSE SumDeletions(chs, n - 1) + chs[n].Deletions

(* C28: line totals match per-file counts.  In the report of a commit       *)
(* whose changes were collected without error, root or non-root,            *)
(* Stats.TotalAdditions is the sum of Additions over the change records and *)
(* Stats.TotalDeletions the sum of Deletions.  Stated as the claim has it;  *)
(* the root-commit branch counts the lines per file only.                   *)
C28_LineTotals ==
    pc = "done" =>
        /\ commitInfo.Stats.TotalAdditions
                = SumAdditions(commitInfo.Changes, Len(commitInfo.Changes))
        /\ commitInfo.Stats.TotalDeletions
                = SumDeletions(commitInfo.Changes, Len(commitInfo.Changes))

(* C29: changed-file list matches change list.  In every report GetCommit   *)
(* returns, FilesChanged has one entry per change record, in the order of   *)
(* the change list, equal to the Filepath of that record, with focus        *)
(* enabled, disabled or failed to initialize.  Stated as the claim has it;  *)
(* the list is filled in the loop that a failed focus.Init skips.           *)
C29_FilesChangedMatches ==
    ~commitInfo.nil =>
        commitInfo.FilesChanged =
            [k \in 1..Len(commitInfo.Changes) |-> commitInfo.Changes[k].Filepath]

\* the positions of the binary changes, and of those among them with a
\* given action
BinaryChanges(chs) == {k \in 1..Len(chs) : chs[k].IsBinary}

BinaryWithAction(chs, a) == {k \in BinaryChanges(chs) : chs[k].Action = a}

\* the per-action counter of a types.StatsInfo for an action
ActionCounter(st, a) ==
    IF a = "add" THEN st.AddFiles
    ELSE IF a = "delete" THEN st.DeleteFiles
    ELSE IF a = "modify" THEN st.ModifyFiles
    ELSE IF a = "rename" THEN st.RenameFiles
    ELSE 0

(* C30: binary counter.  In the report of a commit whose changes were       *)
(* collected without error, Stats.BinaryFiles is the number of change       *)
(* records with IsBinary set, and every binary file is counted once in the  *)
(* counter of its action: each per-action counter is the number of changes  *)
(* with that action, the binary ones included.                              *)
C30_BinaryCounter ==
    pc = "done" =>
        /\ commitInfo.Stats.BinaryFiles
                = Cardinality(BinaryChanges(commitInfo.Changes))
        /\ \A a \in {"add", "delete", "modify", "rename"} :
                /\ ActionCounter(commitInfo.Stats, a)
                        = Cardinality({k \in 1..Len(commitInfo.Changes) :
                                            commitInfo.Changes[k].Action = a})
                /\ ActionCounter(commitInfo.Stats, a)
                        >= Cardinality(BinaryWithAction(commitInfo.Changes, a))

\* the report of a non-root commit that modifies a file of a binary
\* extension and adds a text file: one binary file, counted as modified
C30_Witness ==
    /\ pc = "done" /\ ~isRoot
    /\ Len(commitInfo.Changes) = 2
    /\ commitInfo.Changes[1].IsBinary /\ commitInfo.Changes[1].Action = "modify"
    /\ ~commitInfo.Changes[2].IsBinary /\ commitInfo.Changes[2].Action = "add"
    /\ commitInfo.Stats.BinaryFiles = 1
    /\ commitInfo.Stats.ModifyFiles = 1
    /\ commitInfo.Stats.AddFiles = 1

====
